---- MODULE Spec2Model ----
(***************************************************************************)
(* Model of streamlit_app.py: the AGP report (load_data, the three         *)
(* aggregations, the GMI card) and the editable table persisted to the     *)
(* DuckDB file data_store.duckdb.  Streamlit re-runs the script from the   *)
(* top for every interaction of a browser session; each session has its    *)
(* own widgets and st.session_state, all sessions share the database file. *)
(*                                                                         *)
(* Numbers: a glucose value is held as an integer count of 1/Scale mg/dL,  *)
(* every derived statistic as an exact fraction [kind, num, den].          *)
(***************************************************************************)
EXTENDS Integers, Sequences, FiniteSets, TLC

VARIABLES uploaded, pc, button, edits, session_data, edited_df, out, db, hist

vars == <<uploaded, pc, button, edits, session_data, edited_df, out, db, hist>>

\* ------------------------------------------------------------------------
\* Bounds of the model
\* ------------------------------------------------------------------------
MaxLen == 3

Scale == 2

Sessions == {"A", "B"}

\* ------------------------------------------------------------------------
\* Readings and uploaded workbooks
\* ------------------------------------------------------------------------
TS_COLUMN == "device_timestamp"

GLUCOSE_COLUMN == "historic_glucose"

T1 == [day |-> 1, hour |-> 8, minute |-> 0, second |-> 0]

T2 == [day |-> 2, hour |-> 8, minute |-> 0, second |-> 30]

T3 == [day |-> 1, hour |-> 9, minute |-> 30, second |-> 0]

Timestamps == {T1, T2, T3}

\* -1, 53.5, 70, 154 and 180 mg/dL
GlucoseValues == {-1 * Scale, (107 * Scale) \div 2, 70 * Scale, 154 * Scale, 180 * Scale}

Readings == [timestamp : Timestamps, glucose : GlucoseValues]

RECURSIVE SeqsUpTo(_, _)
SeqsUpTo(S, n) ==
    IF n = 0 THEN {<<>>}
    ELSE LET shorter == SeqsUpTo(S, n - 1)
         IN  shorter \cup {Append(q, x) : q \in {r \in shorter : Len(r) = n - 1}, x \in S}

Workbook(sheets, columns, parseable, rows) ==
    [sheets |-> sheets, columns |-> columns, parseable |-> parseable, rows |-> rows]

ExampleRows ==
    << [timestamp |-> T1, glucose |-> 70 * Scale],
       [timestamp |-> T1, glucose |-> 180 * Scale],
       [timestamp |-> T2, glucose |-> 125 * Scale] >>

GoodFile(rows) == Workbook({"Sheet1"}, {TS_COLUMN, GLUCOSE_COLUMN}, TRUE, rows)

MissingGlucose == Workbook({"Sheet1"}, {TS_COLUMN}, TRUE, ExampleRows)

MissingTimestamp == Workbook({"Sheet1"}, {GLUCOSE_COLUMN}, TRUE, ExampleRows)

BadFiles ==
    { Workbook({"Data"}, {TS_COLUMN, GLUCOSE_COLUMN}, TRUE, ExampleRows),
      MissingTimestamp,
      MissingGlucose,
      Workbook({"Sheet1"}, {}, TRUE, ExampleRows),
      Workbook({"Sheet1"}, {TS_COLUMN, GLUCOSE_COLUMN}, FALSE, ExampleRows) }

AllFiles ==
    {GoodFile(rows) : rows \in SeqsUpTo(Readings, MaxLen) \cup {ExampleRows}} \cup BadFiles

SessionFiles == {GoodFile(ExampleRows), MissingGlucose}

\* ------------------------------------------------------------------------
\* Exact fractions; NaN and Inf as the float results they stand for
\* ------------------------------------------------------------------------
Num(n, d) == [kind |-> "num", num |-> n, den |-> d]

NaN == [kind |-> "nan", num |-> 0, den |-> 1]

Inf == [kind |-> "inf", num |-> 0, den |-> 1]

IsNum(x) == x.kind = "num"

Leq(a, b) == a.num * b.den <= b.num * a.den

Eq(a, b) == a.num * b.den = b.num * a.den

Less(a, b) == a.num * b.den < b.num * a.den

RECURSIVE SumSeq(_)
SumSeq(q) == IF q = <<>> THEN 0 ELSE Head(q) + SumSeq(Tail(q))

RECURSIVE MapGlucose(_)
MapGlucose(rows) ==
    IF rows = <<>> THEN <<>> ELSE <<Head(rows).glucose>> \o MapGlucose(Tail(rows))

\* ------------------------------------------------------------------------
\* load_data
\* ------------------------------------------------------------------------
Ok(v) == [err |-> "", value |-> <<v>>]

Raise(e) == [err |-> e, value |-> <<>>]

\* df.rename(columns={...}): a column that is absent is skipped silently
RenameColumns(columns) ==
    {IF c = TS_COLUMN THEN "Timestamp" ELSE IF c = GLUCOSE_COLUMN THEN "Glucose" ELSE c
        : c \in columns}

\* load_data as it would be if rename() raised on an absent column
load_data_strict(file) ==
    IF "Sheet1" \notin file.sheets THEN Raise("ValueError")
    ELSE IF TS_COLUMN \notin file.columns THEN Raise("KeyError")
    ELSE IF ~file.parseable THEN Raise("DateParseError")
    ELSE IF GLUCOSE_COLUMN \notin file.columns THEN Raise("KeyError")
    ELSE Ok([columns |-> RenameColumns(file.columns), rows |-> file.rows])

load_data(file) ==
    IF "Sheet1" \notin file.sheets THEN Raise("ValueError")
    ELSE IF TS_COLUMN \notin file.columns THEN Raise("KeyError")
    ELSE IF ~file.parseable THEN Raise("DateParseError")
    ELSE Ok([columns |-> RenameColumns(file.columns), rows |-> file.rows])

\* ------------------------------------------------------------------------
\* compute_agp_summary
\* ------------------------------------------------------------------------
Range(lo, hi) == [lo |-> lo, hi |-> hi, inf |-> FALSE]

RangeFrom(lo) == [lo |-> lo, hi |-> lo, inf |-> TRUE]

target_range == Range(70, 180)

low_range == Range(54, 69)

very_low_range == Range(0, 53)

high_range == Range(181, 250)

very_high_range == RangeFrom(251)

\* Series.between(left, right): both ends inclusive
between(g, r) == g >= r.lo * Scale /\ (r.inf \/ g <= r.hi * Scale)

\* Series.between(*r).mean() * 100; the mean of an empty Series is NaN
PercentIn(values, r) ==
    IF Len(values) = 0 THEN NaN
    ELSE Num(100 * Cardinality({i \in 1..Len(values) : between(values[i], r)}), Len(values))

\* Series.mean()
Mean(values) ==
    IF Len(values) = 0 THEN NaN ELSE Num(SumSeq(values), Len(values) * Scale)

SumSquares(values) == SumSeq([i \in 1..Len(values) |-> values[i] * values[i]])

\* (Series.std() / Series.mean()) * 100, std being the sample deviation
\* (ddof = 1).  A finite result is held as the signed square of std / mean.
CoefficientOfVariation(values) ==
    LET n == Len(values)
        S == SumSeq(values)
        dev == n * SumSquares(values) - S * S
    IN  IF n < 2 THEN NaN
        ELSE IF S = 0 THEN (IF dev = 0 THEN NaN ELSE Inf)
        ELSE Num((IF S < 0 THEN -1 ELSE 1) * n * dev, (n - 1) * S * S)

compute_agp_summary(data) ==
    IF "Glucose" \notin data.columns THEN Raise("KeyError")
    ELSE LET g == MapGlucose(data.rows)
         IN  Ok([total |-> Len(data.rows),
                 target |-> PercentIn(g, target_range),
                 low |-> PercentIn(g, low_range),
                 very_low |-> PercentIn(g, very_low_range),
                 high |-> PercentIn(g, high_range),
                 very_high |-> PercentIn(g, very_high_range),
                 mean |-> Mean(g),
                 cv |-> CoefficientOfVariation(g)])

\* ------------------------------------------------------------------------
\* The GMI card: gmi = 3.31 + 0.02392 * mean, shown with format .1f
\* ------------------------------------------------------------------------
GMI(mean) ==
    IF ~IsNum(mean) THEN mean
    ELSE Num(331000 * mean.den + 2392 * mean.num, 100000 * mean.den)

Digits == <<"0", "1", "2", "3", "4", "5", "6", "7", "8", "9">>

RECURSIVE IntStr(_)
IntStr(n) == IF n < 10 THEN Digits[n + 1] ELSE IntStr(n \div 10) \o Digits[(n % 10) + 1]

\* the tenths cut off instead of rounded
TruncateTenths(n, d) == (10 * n) \div d

\* the nearest number of tenths, a tie going to the even one
RoundTenths(n, d) ==
    LET q == (10 * n) \div d
        r == (10 * n) % d
    IN  IF 2 * r > d THEN q + 1
        ELSE IF 2 * r = d THEN q + (q % 2)
        ELSE q

\* f"{x:.1f}"
Format1f(x) ==
    IF x.kind = "nan" THEN "nan"
    ELSE IF x.kind = "inf" THEN "inf"
    ELSE LET neg == x.num < 0
             t == RoundTenths(IF neg THEN -x.num ELSE x.num, x.den)
         IN  (IF neg THEN "-" ELSE "") \o IntStr(t \div 10) \o "." \o Digits[(t % 10) + 1]

\* ------------------------------------------------------------------------
\* groupby(column): one group per distinct value of the column
\* ------------------------------------------------------------------------
RECURSIVE SetToSeq(_)
SetToSeq(S) ==
    IF S = {} THEN <<>>
    ELSE LET x == CHOOSE y \in S : TRUE IN <<x>> \o SetToSeq(S \ {x})

\* the distinct values of a column, in no particular order
Distinct(column) == SetToSeq({column[i] : i \in 1..Len(column)})

\* the distinct values of a column in the order of their first row
InOrderOfAppearance(column) ==
    LET first(k) == CHOOSE i \in 1..Len(column) :
                        column[i] = k /\ \A j \in 1..(i - 1) : column[j] # k
    IN  SortSeq(Distinct(column), LAMBDA a, b : first(a) < first(b))

\* the glucose values of the rows whose column value is k, in row order
RECURSIVE SelectGlucose(_, _, _)
SelectGlucose(rows, column, k) ==
    IF rows = <<>> THEN <<>>
    ELSE (IF Head(column) = k THEN <<Head(rows).glucose>> ELSE <<>>)
         \o SelectGlucose(Tail(rows), Tail(column), k)

Sorted(values) == SortSeq(values, LAMBDA a, b : a < b)

\* ------------------------------------------------------------------------
\* compute_daily_profiles
\* ------------------------------------------------------------------------
\* Timestamp.dt.date
Date(ts) == ts.day

\* data['Date']
DateColumn(rows) == [i \in 1..Len(rows) |-> Date(rows[i].timestamp)]

DailyRow(date, values) ==
    [Date |-> date,
     Min |-> Sorted(values)[1],
     Max |-> Sorted(values)[Len(values)],
     Mean |-> Mean(values)]

\* compute_daily_profiles as it would be with groupby(..., sort=False)
compute_daily_profiles_unsorted(data) ==
    LET column == DateColumn(data.rows)
        keys == InOrderOfAppearance(column)
    IN  [i \in 1..Len(keys) |-> DailyRow(keys[i], SelectGlucose(data.rows, column, keys[i]))]

compute_daily_profiles(data) ==
    LET column == DateColumn(data.rows)
        keys == SortSeq(Distinct(column), LAMBDA a, b : a < b)
    IN  [i \in 1..Len(keys) |-> DailyRow(keys[i], SelectGlucose(data.rows, column, keys[i]))]

\* ------------------------------------------------------------------------
\* compute_agp
\* ------------------------------------------------------------------------
\* the coordinate as it would be with the seconds counted in
TimeOfDayWithSeconds(ts) == Num(3600 * ts.hour + 60 * ts.minute + ts.second, 3600)

\* Timestamp.dt.hour + Timestamp.dt.minute / 60
TimeOfDay(ts) == Num(60 * ts.hour + ts.minute, 60)

\* data['Time of Day']
TimeOfDayColumn(rows) == [i \in 1..Len(rows) |-> TimeOfDay(rows[i].timestamp)]

\* np.percentile(x, p): linear interpolation at position p/100 * (n-1)
Percentile(values, p) ==
    LET s == Sorted(values)
        n == Len(values)
        lo == (p * (n - 1)) \div 100
        rem == (p * (n - 1)) % 100
        hi == IF rem = 0 THEN lo ELSE lo + 1
    IN  Num(100 * s[lo + 1] + rem * (s[hi + 1] - s[lo + 1]), 100 * Scale)

\* the groupby 'median': the middle value, or the mean of the two middle ones
Median(values) ==
    LET s == Sorted(values)
        n == Len(values)
    IN  IF n % 2 = 1 THEN Num(s[(n + 1) \div 2], Scale)
        ELSE Num(s[n \div 2] + s[(n \div 2) + 1], 2 * Scale)

AgpRow(k, values) ==
    [TimeOfDay |-> k,
     Median |-> Median(values),
     Percentile5 |-> Percentile(values, 5),
     Percentile25 |-> Percentile(values, 25),
     Percentile75 |-> Percentile(values, 75),
     Percentile95 |-> Percentile(values, 95)]

compute_agp(data) ==
    LET column == TimeOfDayColumn(data.rows)
        keys == SortSeq(Distinct(column), Less)
    IN  [i \in 1..Len(keys) |-> AgpRow(keys[i], SelectGlucose(data.rows, column, keys[i]))]

\* ------------------------------------------------------------------------
\* The editable table and the database file data_store.duckdb
\* ------------------------------------------------------------------------
initial_data ==
    << [id |-> 1, name |-> "Alice", age |-> 30, email |-> "alice@example.com"],
       [id |-> 2, name |-> "Bob", age |-> 25, email |-> "bob@example.com"],
       [id |-> 3, name |-> "Charlie", age |-> 35, email |-> "charlie@example.com"] >>

\* the cell edits held by the st.data_editor widget: (row, column, value)
EditChoices == { {}, {<<1, "name", "Alicia">>, <<2, "age", 26>>} }

RECURSIVE ApplyEdits(_, _)
ApplyEdits(df, e) ==
    IF e = {} THEN df
    ELSE LET c == CHOOSE x \in e : TRUE
         IN  ApplyEdits([df EXCEPT ![c[1]] = [@ EXCEPT ![c[2]] = c[3]]], e \ {c})

NoDatabase == [file |-> FALSE, exists |-> FALSE, rows |-> <<>>]

\* duckdb.connect("data_store.duckdb") creates the file when it is missing
Connect(d) == [d EXCEPT !.file = TRUE]

\* CREATE TABLE IF NOT EXISTS editable_data (...)
CreateTableIfNotExists(d) == [d EXCEPT !.exists = TRUE]

\* save_to_duckdb without its DELETE statement
DeleteNothing(d) == d

\* DELETE FROM editable_data
DeleteFrom(d) == [d EXCEPT !.rows = <<>>]

\* INSERT INTO editable_data SELECT * FROM df
InsertInto(d, df) == [d EXCEPT !.rows = @ \o df]

\* SELECT * FROM editable_data
SelectAll(d) == IF d.exists THEN Ok(d.rows) ELSE Raise("CatalogException")

\* ------------------------------------------------------------------------
\* One script run per interaction
\* ------------------------------------------------------------------------
EmptyOut ==
    [data |-> <<>>, summary |-> <<>>, mean_text |-> "", gmi |-> NaN, gmi_text |-> "",
     agp |-> <<>>, daily |-> <<>>, err |-> "", failed_in |-> "",
     saved_data |-> <<>>, success |-> FALSE]

\* a run that goes straight to the editable table
FirstStepSkipsUpload(file) == "editor"

\* line 116: if uploaded_file
FirstStep(file) == IF file # <<>> THEN "load_data" ELSE "editor"

\* lines 173 and 178: the button whose click caused this run returns True
AfterEditor(b) ==
    IF b = "save" THEN "create" ELSE IF b = "load" THEN "select" ELSE "idle"

\* an uncaught exception ends the run; the page shows the error
Failed(o, e, where) == [o EXCEPT !.err = e, !.failed_in = where]

BeginRun(s, file, b) ==
    /\ pc[s] = "idle"
    /\ pc' = [pc EXCEPT ![s] = FirstStep(file)]
    /\ button' = [button EXCEPT ![s] = b]
    /\ out' = [out EXCEPT ![s] = EmptyOut]
    /\ uploaded' = [uploaded EXCEPT ![s] = file]

Upload(s, f) ==
    /\ BeginRun(s, <<f>>, "none")
    /\ UNCHANGED <<edits, session_data, edited_df, db, hist>>

ClearUpload(s) ==
    /\ uploaded[s] # <<>>
    /\ BeginRun(s, <<>>, "none")
    /\ UNCHANGED <<edits, session_data, edited_df, db, hist>>

EditTable(s, e) ==
    /\ session_data[s] # <<>>
    /\ e # edits[s]
    /\ BeginRun(s, uploaded[s], "none")
    /\ edits' = [edits EXCEPT ![s] = e]
    /\ UNCHANGED <<session_data, edited_df, db, hist>>

PressSave(s) ==
    /\ session_data[s] # <<>>
    /\ BeginRun(s, uploaded[s], "save")
    /\ UNCHANGED <<edits, session_data, edited_df, db, hist>>

PressLoad(s) ==
    /\ session_data[s] # <<>>
    /\ BeginRun(s, uploaded[s], "load")
    /\ UNCHANGED <<edits, session_data, edited_df, db, hist>>

\* line 117: data = load_data(uploaded_file)
LoadData(s) ==
    /\ pc[s] = "load_data"
    /\ LET r == load_data(uploaded[s][1])
       IN  IF r.err = ""
           THEN /\ out' = [out EXCEPT ![s].data = r.value]
                /\ pc' = [pc EXCEPT ![s] = "summary"]
           ELSE /\ out' = [out EXCEPT ![s] = Failed(@, r.err, "load_data")]
                /\ pc' = [pc EXCEPT ![s] = "idle"]
    /\ UNCHANGED <<uploaded, button, edits, session_data, edited_df, db, hist>>

\* lines 120-125: the summary, the mean and GMI cards, the stacked bar
Summary(s) ==
    /\ pc[s] = "summary"
    /\ LET r == compute_agp_summary(out[s].data[1])
       IN  IF r.err = ""
           THEN /\ out' = [out EXCEPT ![s].summary = r.value,
                                      ![s].mean_text = Format1f(r.value[1].mean),
                                      ![s].gmi = GMI(r.value[1].mean),
                                      ![s].gmi_text = Format1f(GMI(r.value[1].mean))]
                /\ pc' = [pc EXCEPT ![s] = "agp"]
           ELSE /\ out' = [out EXCEPT ![s] = Failed(@, r.err, "compute_agp_summary")]
                /\ pc' = [pc EXCEPT ![s] = "idle"]
    /\ UNCHANGED <<uploaded, button, edits, session_data, edited_df, db, hist>>

\* lines 128-129: compute_agp adds the 'Time of Day' column to data
Agp(s) ==
    /\ pc[s] = "agp"
    /\ out' = [out EXCEPT ![s].agp = <<compute_agp(out[s].data[1])>>,
                          ![s].data = <<[@[1] EXCEPT !.columns = @ \cup {"Time of Day"}]>>]
    /\ pc' = [pc EXCEPT ![s] = "daily"]
    /\ UNCHANGED <<uploaded, button, edits, session_data, edited_df, db, hist>>

\* lines 132-134: compute_daily_profiles adds the 'Date' column to data
Daily(s) ==
    /\ pc[s] = "daily"
    /\ out' = [out EXCEPT ![s].daily = <<compute_daily_profiles(out[s].data[1])>>,
                          ![s].data = <<[@[1] EXCEPT !.columns = @ \cup {"Date"}]>>]
    /\ pc' = [pc EXCEPT ![s] = "editor"]
    /\ UNCHANGED <<uploaded, button, edits, session_data, edited_df, db, hist>>

\* lines 157-170: st.session_state.data is set once, the editor returns it
\* with the widget's edits applied
Editor(s) ==
    /\ pc[s] = "editor"
    /\ LET sd == IF session_data[s] = <<>> THEN <<initial_data>> ELSE session_data[s]
       IN  /\ session_data' = [session_data EXCEPT ![s] = sd]
           /\ edited_df' = [edited_df EXCEPT ![s] = ApplyEdits(sd[1], edits[s])]
    /\ pc' = [pc EXCEPT ![s] = AfterEditor(button[s])]
    /\ UNCHANGED <<uploaded, button, edits, out, db, hist>>

\* lines 173-174 and 143-144: save_to_duckdb(edited_df) connects and creates
SaveCreate(s) ==
    /\ pc[s] = "create"
    /\ db' = CreateTableIfNotExists(Connect(db))
    /\ hist' = [hist EXCEPT !.last_arg[s] = <<edited_df[s]>>]
    /\ pc' = [pc EXCEPT ![s] = "delete"]
    /\ UNCHANGED <<uploaded, button, edits, session_data, edited_df, out>>

\* line 145
SaveDelete(s) ==
    /\ pc[s] = "delete"
    /\ db' = DeleteFrom(db)
    /\ pc' = [pc EXCEPT ![s] = "insert"]
    /\ UNCHANGED <<uploaded, button, edits, session_data, edited_df, out, hist>>

\* lines 146-147 and 175
SaveInsert(s) ==
    /\ pc[s] = "insert"
    /\ db' = InsertInto(db, edited_df[s])
    /\ out' = [out EXCEPT ![s].success = TRUE]
    /\ hist' = [hist EXCEPT !.completed = TRUE]
    /\ pc' = [pc EXCEPT ![s] = "idle"]
    /\ UNCHANGED <<uploaded, button, edits, session_data, edited_df>>

\* lines 178-183
LoadFromDatabase(s) ==
    /\ pc[s] = "select"
    /\ db' = Connect(db)
    /\ LET r == SelectAll(db)
       IN  IF r.err = ""
           THEN out' = [out EXCEPT ![s].saved_data = r.value]
           ELSE out' = [out EXCEPT ![s] = Failed(@, r.err, "load")]
    /\ pc' = [pc EXCEPT ![s] = "idle"]
    /\ UNCHANGED <<uploaded, button, edits, session_data, edited_df, hist>>

\* ------------------------------------------------------------------------
\* Specifications
\* ------------------------------------------------------------------------
\* hist records, for the properties only: the rows each session last passed
\* to save_to_duckdb and whether any call has returned
NoHistory ==
    [last_arg |-> [s \in Sessions |-> <<>>], completed |-> FALSE]

\* every session has just been opened: its first run, without a file, is due
Init ==
    /\ uploaded = [s \in Sessions |-> <<>>]
    /\ pc = [s \in Sessions |-> FirstStep(<<>>)]
    /\ button = [s \in Sessions |-> "none"]
    /\ edits = [s \in Sessions |-> {}]
    /\ session_data = [s \in Sessions |-> <<>>]
    /\ edited_df = [s \in Sessions |-> <<>>]
    /\ out = [s \in Sessions |-> EmptyOut]
    /\ db = NoDatabase
    /\ hist = NoHistory

SessionStep(s) ==
    \/ \E f \in SessionFiles : Upload(s, f)
    \/ ClearUpload(s)
    \/ \E e \in EditChoices : EditTable(s, e)
    \/ PressSave(s)
    \/ PressLoad(s)
    \/ LoadData(s)
    \/ Summary(s)
    \/ Agp(s)
    \/ Daily(s)
    \/ Editor(s)
    \/ SaveCreate(s)
    \/ SaveDelete(s)
    \/ SaveInsert(s)
    \/ LoadFromDatabase(s)

Next == \E s \in Sessions : SessionStep(s)

Spec == Init /\ [][Next]_vars

\* one browser session only
NextSingle == SessionStep("A")

SpecSingle == Init /\ [][NextSingle]_vars

\* session A has just uploaded a workbook: the run over it is due
InitAgg ==
    /\ \E f \in AllFiles : uploaded = [s \in Sessions |-> IF s = "A" THEN <<f>> ELSE <<>>]
    /\ pc = [s \in Sessions |-> IF s = "A" THEN "load_data" ELSE FirstStep(<<>>)]
    /\ button = [s \in Sessions |-> "none"]
    /\ edits = [s \in Sessions |-> {}]
    /\ session_data = [s \in Sessions |-> IF s = "A" THEN <<initial_data>> ELSE <<>>]
    /\ edited_df = [s \in Sessions |-> IF s = "A" THEN initial_data ELSE <<>>]
    /\ out = [s \in Sessions |-> EmptyOut]
    /\ db = NoDatabase
    /\ hist = NoHistory

NextAgg == LoadData("A") \/ Summary("A") \/ Agp("A") \/ Daily("A")

SpecAgg == InitAgg /\ [][NextAgg]_vars

\* ------------------------------------------------------------------------
\* Properties
\* ------------------------------------------------------------------------
HasData(s) == out[s].data # <<>>

RowsOf(s) == out[s].data[1].rows

HasSummary(s) == out[s].summary # <<>>

SummaryOf(s) == out[s].summary[1]

NoResults(s) == out[s].summary = <<>> /\ out[s].agp = <<>> /\ out[s].daily = <<>>

RECURSIVE SumGlucoseAt(_, _)
SumGlucoseAt(rows, I) ==
    IF I = {} THEN 0
    ELSE LET i == CHOOSE j \in I : TRUE
         IN  rows[i].glucose + SumGlucoseAt(rows, I \ {i})

\* C1: for every non-empty Series the five bucket percentages add up to the
\* percentage of readings whose value is >= 0: every such reading, integer
\* or fractional, is counted in exactly one bucket and a negative one in none.
C1_BucketsCoverNonNegative ==
    \A s \in Sessions :
        (HasSummary(s) /\ SummaryOf(s).total > 0) =>
            LET sm == SummaryOf(s)
                n == sm.total
                nonneg == {i \in 1..n : RowsOf(s)[i].glucose >= 0}
            IN  /\ \A b \in {sm.very_low, sm.low, sm.target, sm.high, sm.very_high} :
                       IsNum(b) /\ b.den = n
                /\ sm.very_low.num + sm.low.num + sm.target.num + sm.high.num
                       + sm.very_high.num = 100 * Cardinality(nonneg)

\* C2: on a Series of zero readings every aggregation ends in an
\* EmptySeriesError: none returns a result, and the run stops in
\* compute_agp_summary with that error.
C2_EmptySeriesIsReported ==
    \A s \in Sessions :
        (HasData(s) /\ RowsOf(s) = <<>> /\ "Glucose" \in out[s].data[1].columns) =>
            /\ NoResults(s)
            /\ pc[s] # "summary" => out[s].err = "EmptySeriesError"

LacksColumn(f) == TS_COLUMN \notin f.columns \/ GLUCOSE_COLUMN \notin f.columns

Readable(f) == "Sheet1" \in f.sheets /\ f.parseable

\* C3 as stated: a workbook lacking either required column makes load_data
\* itself fail, so that no table is produced and no aggregation step runs.
C3_IngestionRejectsMissingColumn ==
    \A s \in Sessions :
        (uploaded[s] # <<>> /\ Readable(uploaded[s][1]) /\ LacksColumn(uploaded[s][1])
            /\ pc[s] # "load_data") =>
            /\ out[s].failed_in = "load_data"
            /\ out[s].data = <<>>
            /\ NoResults(s)

\* C3 amended: without the timestamp column load_data fails with a KeyError
\* and produces no table; with the timestamp column but without the glucose
\* column load_data returns a table without 'Glucose' and the run fails with
\* a KeyError in compute_agp_summary; in both cases no summary, AGP curve or
\* daily profile is produced.
C3_MissingColumnAbortsRun ==
    \A s \in Sessions :
        (uploaded[s] # <<>> /\ Readable(uploaded[s][1]) /\ LacksColumn(uploaded[s][1])
            /\ pc[s] # "load_data") =>
            /\ NoResults(s)
            /\ IF TS_COLUMN \notin uploaded[s][1].columns
               THEN /\ out[s].data = <<>>
                    /\ out[s].failed_in = "load_data"
                    /\ out[s].err = "KeyError"
                    /\ pc[s] = "idle"
               ELSE /\ HasData(s)
                    /\ "Glucose" \notin out[s].data[1].columns
                    /\ pc[s] \in {"summary", "idle"}
                    /\ pc[s] = "idle" =>
                           /\ out[s].failed_in = "compute_agp_summary"
                           /\ out[s].err = "KeyError"

C3_Witness ==
    \E s \in Sessions :
        /\ uploaded[s] = <<MissingGlucose>>
        /\ HasData(s)
        /\ out[s].failed_in = "compute_agp_summary"
        /\ pc[s] = "idle"

\* C4: for a non-empty Series compute_daily_profiles returns one row per
\* calendar date that occurs among the timestamps, in ascending date order
\* whatever the input order, each row holding the minimum, maximum and mean
\* of exactly the readings of its date, with Min <= Mean <= Max.
C4_DailyProfiles ==
    \A s \in Sessions :
        (out[s].daily # <<>> /\ RowsOf(s) # <<>>) =>
            LET d == out[s].daily[1]
                rows == RowsOf(s)
                dates == {rows[i].timestamp.day : i \in 1..Len(rows)}
            IN  /\ Len(d) = Cardinality(dates)
                /\ {d[i].Date : i \in 1..Len(d)} = dates
                /\ \A i \in 1..(Len(d) - 1) : d[i].Date < d[i + 1].Date
                /\ \A i \in 1..Len(d) :
                       LET I == {j \in 1..Len(rows) : rows[j].timestamp.day = d[i].Date}
                       IN  /\ \E j \in I : rows[j].glucose = d[i].Min
                           /\ \A j \in I : d[i].Min <= rows[j].glucose
                           /\ \E j \in I : rows[j].glucose = d[i].Max
                           /\ \A j \in I : rows[j].glucose <= d[i].Max
                           /\ IsNum(d[i].Mean)
                           /\ Eq(d[i].Mean, Num(SumGlucoseAt(rows, I), Cardinality(I) * Scale))
                           /\ Leq(Num(d[i].Min, Scale), d[i].Mean)
                           /\ Leq(d[i].Mean, Num(d[i].Max, Scale))

C4_Witness ==
    \E s \in Sessions :
        /\ out[s].daily # <<>>
        /\ Len(RowsOf(s)) = 3
        /\ RowsOf(s)[1].timestamp.day > RowsOf(s)[3].timestamp.day
        /\ Len(out[s].daily[1]) = 2
        /\ \E i \in 1..2 : out[s].daily[1][i].Min < out[s].daily[1][i].Max

\* the k-th smallest glucose value among the rows indexed by I
OrderStatistic(rows, I, k) ==
    CHOOSE v \in {rows[j].glucose : j \in I} :
        /\ Cardinality({j \in I : rows[j].glucose < v}) < k
        /\ k <= Cardinality({j \in I : rows[j].glucose <= v})

\* linear interpolation at position p/100 * (n-1) of the sorted group
InterpolatedAt(rows, I, p) ==
    LET n == Cardinality(I)
        lo == (p * (n - 1)) \div 100
        rem == (p * (n - 1)) % 100
        a == OrderStatistic(rows, I, lo + 1)
        b == IF rem = 0 THEN a ELSE OrderStatistic(rows, I, lo + 2)
    IN  Num(100 * a + rem * (b - a), 100 * Scale)

MinuteOfDay(ts) == 60 * ts.hour + ts.minute

\* C5: for a non-empty Series compute_agp returns one row per distinct
\* coordinate hour + minute/60 (the day and the seconds play no part), in
\* ascending coordinate order; the median and the 5th, 25th, 75th and 95th
\* percentiles of a row are the linear interpolations over exactly the
\* glucose values of its group, so p5 <= p25 <= median <= p75 <= p95.
C5_AgpCurve ==
    \A s \in Sessions :
        (out[s].agp # <<>> /\ RowsOf(s) # <<>>) =>
            LET a == out[s].agp[1]
                rows == RowsOf(s)
                coords == {MinuteOfDay(rows[i].timestamp) : i \in 1..Len(rows)}
            IN  /\ Len(a) = Cardinality(coords)
                /\ \A c \in coords : \E i \in 1..Len(a) : Eq(a[i].TimeOfDay, Num(c, 60))
                /\ \A i \in 1..(Len(a) - 1) : Less(a[i].TimeOfDay, a[i + 1].TimeOfDay)
                /\ \A i \in 1..Len(a) :
                       LET I == {j \in 1..Len(rows) :
                                    Eq(Num(MinuteOfDay(rows[j].timestamp), 60), a[i].TimeOfDay)}
                       IN  /\ I # {}
                           /\ Eq(a[i].Percentile5, InterpolatedAt(rows, I, 5))
                           /\ Eq(a[i].Percentile25, InterpolatedAt(rows, I, 25))
                           /\ Eq(a[i].Median, InterpolatedAt(rows, I, 50))
                           /\ Eq(a[i].Percentile75, InterpolatedAt(rows, I, 75))
                           /\ Eq(a[i].Percentile95, InterpolatedAt(rows, I, 95))
                           /\ Leq(a[i].Percentile5, a[i].Percentile25)
                           /\ Leq(a[i].Percentile25, a[i].Median)
                           /\ Leq(a[i].Median, a[i].Percentile75)
                           /\ Leq(a[i].Percentile75, a[i].Percentile95)

\* readings of different days and seconds share the row of 8:00, which
\* comes before the row of 9:30 although 9:30 was read first
C5_Witness ==
    \E s \in Sessions :
        /\ out[s].agp # <<>>
        /\ Len(RowsOf(s)) = 3
        /\ RowsOf(s)[1].timestamp = T3
        /\ RowsOf(s)[2].timestamp = T1
        /\ RowsOf(s)[3].timestamp = T2
        /\ Len(out[s].agp[1]) = 2
        /\ Less(out[s].agp[1][1].Percentile5, out[s].agp[1][1].Percentile25)
        /\ Less(out[s].agp[1][1].Median, out[s].agp[1][1].Percentile95)

TenthsText(t) == IntStr(t \div 10) \o "." \o Digits[(t % 10) + 1]

Abs(x) == IF x < 0 THEN -x ELSE x

\* C6: the GMI shown is 3.31 + 0.02392 * Mean and nothing else, rounded to
\* one decimal; for Mean = 154 it is 6.99368, shown as "7.0".
C6_GMI ==
    \A s \in Sessions :
        (HasSummary(s) /\ IsNum(SummaryOf(s).mean)) =>
            LET m == SummaryOf(s).mean
                g == out[s].gmi
            IN  /\ IsNum(g)
                /\ g.num * m.den = (331000 * m.den + 2392 * m.num) * (g.den \div 100000)
                /\ g.den % 100000 = 0
                /\ \E t \in 0..999 :
                       /\ out[s].gmi_text = TenthsText(t)
                       /\ 2 * Abs(10 * g.num - t * g.den) <= g.den
                /\ Eq(m, Num(154, 1)) =>
                       /\ g.num = 699368 * (g.den \div 100000)
                       /\ out[s].gmi_text = "7.0"

C6_Witness ==
    \E s \in Sessions :
        /\ HasSummary(s)
        /\ SummaryOf(s).total = 2
        /\ Eq(SummaryOf(s).mean, Num(154, 1))
        /\ out[s].gmi_text = "7.0"

C8_SessionsIsolated ==
    \A s \in Sessions :
        out[s].saved_data # <<>> =>
            /\ hist.last_arg[s] # <<>>
            /\ out[s].saved_data = hist.last_arg[s]

PersistenceSteps == {"create", "delete", "insert", "select"}

UploadBlockDone(s) ==
    /\ HasData(s)
    /\ out[s].summary # <<>>
    /\ out[s].agp # <<>>
    /\ out[s].daily # <<>>
    /\ out[s].failed_in \notin {"load_data", "compute_agp_summary"}

FileFails(f) ==
    \/ load_data(f).err # ""
    \/ compute_agp_summary(load_data(f).value[1]).err # ""

\* C9: while a file is uploaded, a run reaches the editable table and the
\* save or load of the pressed button only after load_data and the three
\* aggregations of that same run have completed; with a failing file
\* uploaded no run reaches a save or a load.
C9_PersistenceAfterUploadBlock ==
    \A s \in Sessions :
        /\ (uploaded[s] # <<>> /\ (\/ pc[s] \in PersistenceSteps \cup {"editor"}
                                   \/ out[s].success
                                   \/ out[s].saved_data # <<>>
                                   \/ out[s].failed_in = "load"))
               => UploadBlockDone(s)
        /\ (uploaded[s] # <<>> /\ FileFails(uploaded[s][1])) =>
               /\ pc[s] \notin PersistenceSteps \cup {"editor"}
               /\ ~out[s].success
               /\ out[s].saved_data = <<>>
               /\ out[s].failed_in # "load"

\* one session has saved in a run over a good file, the other pressed Save
\* over a failing file and its run ended before the save
C9_Witness ==
    \E s, t \in Sessions :
        /\ uploaded[s] # <<>> /\ out[s].success /\ UploadBlockDone(s)
        /\ uploaded[t] # <<>> /\ FileFails(uploaded[t][1])
        /\ button[t] = "save" /\ pc[t] = "idle" /\ ~out[t].success

\* C10: as long as no save has completed against the database, a load ends
\* in an error and displays no rows.
C10_LoadBeforeAnySaveFails ==
    \A s \in Sessions :
        ~hist.completed => out[s].saved_data = <<>>

====
